---- MODULE Spec2Model ----
(***************************************************************************)
(* Model of the Auth0 rule rules/activate-new-users-in-CIS.js: the          *)
(* provisioning pipeline that creates a CIS profile for a new user.         *)
(*                                                                         *)
(* One rule invocation is a chain of asynchronous steps.  Each action of    *)
(* the model is the code that runs between two suspension points (await /   *)
(* promise resolution).  The remote services (OAuth token endpoint,         *)
(* PersonAPI, ChangeAPI, Auth0 management API) are the environment: their   *)
(* answers are inputs of the actions.                                       *)
(***************************************************************************)
EXTENDS Integers, Sequences, FiniteSets, TLC

VARIABLES
  configuration,  \* the rule's static configuration object
  global,         \* process-wide object holding the cached bearer token
  clock,          \* Date.now(), in milliseconds
  ticks,          \* number of clock advances so far (bounds the model)
  invocations,    \* number of rule invocations started so far
  pc,             \* where the current invocation is suspended
  phase,          \* which function awaits getBearerToken: "get" | "post"
  context,        \* the context argument of the current invocation
  user,           \* the user argument of the current invocation
  args,           \* the two arguments as the caller handed them over
  METADATA,       \* METADATA.existsInCIS of the current invocation
  bearer,         \* `const bearer` of getPersonProfile / postProfile
  callbacks,      \* how often callback was invoked by this invocation
  callbackError,  \* TRUE iff callback was invoked with a non-null error
  thrown,         \* TRUE iff the rule function threw to its caller
  log,            \* kind of the last "Error: ..." line on the console
  net,            \* outbound calls issued by the current invocation
  issued,         \* number of access tokens the OAuth endpoint handed out
  profile,        \* what getPersonProfile settled with ("none" before)
  response,       \* what postProfile settled with ("none" before)
  cis,            \* the remote profile store / change pipeline
  auth0,          \* the Auth0 user-metadata store of the subject
  skeleton,       \* the decoded null profile / the tree handed to signAll
  document,       \* `profile` of createPersonProfile and signAll
  person,         \* the fields of `user` that createPersonProfile reads
  i,              \* loop index of createPersonProfile
  stage,          \* position inside createPersonProfile / signAll
  calls,          \* concurrent getBearerToken calls, one per invocation
  completed       \* token and time of the token request that settled last

vars == <<configuration, global, clock, ticks, invocations, pc, phase,
          context, user, args, METADATA, bearer, callbacks, callbackError,
          thrown, log, net, issued, profile, response, cis, auth0,
          skeleton, document, person, i, stage, calls, completed>>

(* state of the parts of the program that the orchestration steps leave alone *)
aux == <<skeleton, document, person, i, stage, calls, completed>>

----------------------------------------------------------------------------
(* Bounds of the model *)

MaxInvocations == 2
MaxTicks == 2
(* largest number of settings of the configuration that are absent or wrong *)
MaxDefects == 1

(* Clock advances (milliseconds) the model can take between two steps:      *)
(* one second, 64.8 seconds, and 18 hours.                                  *)
Durations == {1000, 64800, 64800000}

----------------------------------------------------------------------------
(* Program constants *)

PERSONAPI_BEARER_TOKEN_REFRESH_AGE == 64800

WHITELISTED_CONNECTIONS ==
  {"email", "firefoxaccounts", "github", "google-oauth2", "oauth2"}

(* 18 hours in the unit of Date.now() *)
EighteenHoursMs == 18 * 60 * 60 * 1000

(* undefined / absent bearer token *)
NoToken == 0

----------------------------------------------------------------------------
(* Inputs *)

(* connection strategies a login can arrive with ("ad" is LDAP) *)
Strategies == {"github", "ad"}

(* a metadata mapping is absent, present without the flag, or present with  *)
(* existsInCIS set                                                          *)
MetadataKinds == {"absent", "unset", "set"}

Configurations ==
  [changeapi_auth0_private_key : {"absent", "ok"},
   changeapi_null_profile      : {"absent", "ok", "malformed"},
   changeapi_url               : {"absent", "ok"},
   personapi_client_id         : {"absent", "ok"},
   personapi_client_secret     : {"absent", "ok"},
   personapi_url               : {"absent", "ok", "versioned"},
   personapi_audience          : {"absent", "ok", "https"},
   personapi_oauth_url         : {"absent", "ok"}]

(* the configurations the model starts from *)
Defects(cfg) == Cardinality({k \in DOMAIN cfg : cfg[k] # "ok"})
BoundedConfigurations == {cfg \in Configurations : Defects(cfg) <= MaxDefects}

Contexts ==
  [connectionStrategy : Strategies, primaryUserMetadata : MetadataKinds]

Users == [user_metadata : MetadataKinds]

TokenResponses  == {"token", "error_body", "reject"}
StoreResponses  == {"profile", "empty", "error_body", "null_body", "reject"}
SubmitResponses == {"ok200", "other_body", "null_body", "reject"}

NoCalls == [token |-> 0, store |-> 0, submit |-> 0, update |-> 0, unauth |-> 0]

----------------------------------------------------------------------------
(* Pure helpers *)

(* const METADATA = context.primaryUserMetadata || user.user_metadata || {} *)
SelectMetadata(ctx, usr) ==
  IF ctx.primaryUserMetadata # "absent" THEN ctx.primaryUserMetadata
  ELSE IF usr.user_metadata # "absent" THEN usr.user_metadata
  ELSE "unset"

(* the presence test of the configuration gate *)
MissingConfiguration(cfg) ==
  \/ cfg.changeapi_auth0_private_key = "absent"
  \/ cfg.changeapi_null_profile = "absent"
  \/ cfg.changeapi_url = "absent"
  \/ cfg.personapi_client_id = "absent"
  \/ cfg.personapi_client_secret = "absent"
  \/ cfg.personapi_url = "absent"

(* Outcome of the two configuration tests.  personapi_audience is not part  *)
(* of the presence test, so `.includes` is called on undefined when it is   *)
(* absent: a TypeError thrown out of the rule function.                     *)
ConfigGate(cfg) ==
  IF MissingConfiguration(cfg) THEN "missing"
  ELSE IF cfg.personapi_audience = "absent" THEN "throw"
  ELSE IF cfg.personapi_audience = "https" \/ cfg.personapi_url = "versioned"
       THEN "misconfigured"
  ELSE "pass"

(* the two eligibility tests: whitelisted strategy, flag not set *)
Eligible(ctx, md) ==
  /\ ctx.connectionStrategy \in WHITELISTED_CONNECTIONS
  /\ md # "set"

(* a cache test that forgets the age of the token *)
TokenFreshNoExpiry(tok, created, now) ==
  /\ tok # NoToken
  /\ created # 0

(* the cache test of getBearerToken *)
TokenFresh(tok, created, now) ==
  /\ tok # NoToken
  /\ created # 0
  /\ now - created < PERSONAPI_BEARER_TOKEN_REFRESH_AGE

(* an existence test with the comparison inverted *)
ProfileExistsInverted(r) == r = "empty"

(* an existence test that never finds a profile *)
ProfileExistsNever(r) == FALSE

(* a store that keeps the creation time of the token it replaces *)
StoreTokenKeepsTime(g, tok, now) ==
  [personapi_bearer_token |-> tok,
   personapi_bearer_token_creation_time |->
     IF g.personapi_bearer_token_creation_time # 0
     THEN g.personapi_bearer_token_creation_time ELSE now]

(* lines 82-83: data.access_token and Date.now() are written to the global  *)
(* object in one synchronous stretch of code                                *)
StoreToken(g, tok, now) ==
  [personapi_bearer_token |-> tok,
   personapi_bearer_token_creation_time |-> now]

(* Object.keys(profile).length !== 0 for the bodies the store can answer *)
ProfileExists(r) == r \in {"profile", "error_body"}

(* a success test that forgets the status code *)
SubmissionSucceededAnyObject(r) == r \in {"ok200", "other_body"}

(* response.constructor === Object && response.status_code === 200 *)
SubmissionSucceeded(r) == r = "ok200"

----------------------------------------------------------------------------
(* Pieces of actions shared by several handlers *)

(* the fetch of getPersonProfile (p = "get") or postProfile (p = "post")    *)
(* is issued with bearer b; n is the call count before                      *)
IssueCall(p, b, n) ==
  /\ pc' = IF p = "get" THEN "store_wait" ELSE "submit_wait"
  /\ net' = [n EXCEPT ![IF p = "get" THEN "store" ELSE "submit"] = @ + 1,
                      !.unauth = @ + (IF b = NoToken THEN 1 ELSE 0)]

(* getBearerToken up to its first suspension point, called from p *)
GetBearerToken(p, n) ==
  /\ phase' = p
  /\ IF TokenFresh(global.personapi_bearer_token,
                   global.personapi_bearer_token_creation_time, clock)
     THEN /\ bearer' = global.personapi_bearer_token
          /\ IssueCall(p, global.personapi_bearer_token, n)
     ELSE /\ bearer' = NoToken
          /\ pc' = "token_wait"
          /\ net' = [n EXCEPT !.token = @ + 1]

(* callback(null, user, context) *)
Callback(n) ==
  /\ callbacks' = n + 1
  /\ callbackError' = FALSE
  /\ pc' = "done"

(* a marking that writes the flag into both metadata mappings *)
MarkMetadataBoth(ctx, usr) ==
  [context |-> [ctx EXCEPT !.primaryUserMetadata = "set"],
   user    |-> [usr EXCEPT !.user_metadata = "set"]]

(* METADATA.existsInCIS = true: METADATA is the object it was read from,    *)
(* context.primaryUserMetadata or else user.user_metadata, and a fresh      *)
(* object only when neither is supplied                                     *)
MarkMetadata(ctx, usr) ==
  IF ctx.primaryUserMetadata # "absent"
  THEN [context |-> [ctx EXCEPT !.primaryUserMetadata = "set"], user |-> usr]
  ELSE IF usr.user_metadata # "absent"
       THEN [context |-> ctx, user |-> [usr EXCEPT !.user_metadata = "set"]]
       ELSE [context |-> ctx, user |-> usr]

(* setExistsInCIS(): sets the flag on METADATA and starts the update call;  *)
(* the promise of the update call is not returned, so nothing waits for it  *)
SetExistsInCIS ==
  /\ METADATA' = "set"
  /\ context' = MarkMetadata(context, user).context
  /\ user' = MarkMetadata(context, user).user
  /\ auth0' = [auth0 EXCEPT !.pending = @ + 1]
  /\ net' = [net EXCEPT !.update = @ + 1]

----------------------------------------------------------------------------
(* Profile documents                                                        *)
(*                                                                          *)
(* A profile is a tree of JSON objects.  A JSON value is modelled by its    *)
(* type and its text: the number 42 is V("number", "42"), the string "42"   *)
(* is V("string", "42").  An attribute (leaf) is an object with a key       *)
(* signature; an object without that key is a container; anything that is   *)
(* not an object is a record with the single key scalar.                    *)

PUBLISHER_NAME == "access_provider"

V(t, v) == [type |-> t, v |-> v]
Null == V("null", "null")

(* JavaScript truthiness of a value *)
Truthy(val) ==
  /\ val.type # "null"
  /\ ~(val.type = "number" /\ val.v \in {"0", "NaN"})
  /\ ~(val.type = "string" /\ val.v = "")
  /\ ~(val.type = "boolean" /\ val.v = "false")

(* Number.prototype.toString: the decimal text of the number, as a string *)
NumberToString(val) == V("string", val.v)

(* attr.constructor === Object *)
IsObject(node) == "scalar" \notin DOMAIN node

(* attr.signature is there (an object, hence truthy) *)
HasSignature(node) == "signature" \in DOMAIN node

(* the object without one of its keys: delete(attr.signature) *)
Without(attr, key) == [k \in DOMAIN attr \ {key} |-> attr[k]]

(* JSON text of an attribute, as the list of its parts *)
Serialize(attr) ==
     (IF "value" \in DOMAIN attr
      THEN <<"value", attr.value.type, attr.value.v>> ELSE << >>)
  \o (IF "values" \in DOMAIN attr
      THEN <<"values", attr.values.type, attr.values.v>> ELSE << >>)
  \o (IF "metadata" \in DOMAIN attr
      THEN <<"metadata", attr.metadata.last_modified, attr.metadata.display,
             IF attr.metadata.verified THEN "true" ELSE "false">> ELSE << >>)
  \o (IF "signature" \in DOMAIN attr
      THEN <<"signature", attr.signature.publisher.name>>
           \o attr.signature.publisher.value ELSE << >>)

(* jwt.sign(payload, privateKey, {algorithm: 'RS256', noTimestamp: true}):   *)
(* RS256 is deterministic and no iat is added, so the token is a function   *)
(* of the payload's text, different for different texts                     *)
JwtSign(payload) == <<"RS256">> \o Serialize(payload)

(* a coercion that also turns 0 into "0" *)
CoerceAnyNumber(attr) ==
  IF "value" \in DOMAIN attr /\ attr.value.type = "number"
  THEN [attr EXCEPT !.value = NumberToString(attr.value)]
  ELSE attr

(* if (attr.value && typeof attr.value === "number") attr.value = ...toString() *)
Coerce(attr) ==
  IF "value" \in DOMAIN attr /\ Truthy(attr.value) /\ attr.value.type = "number"
  THEN [attr EXCEPT !.value = NumberToString(attr.value)]
  ELSE attr

(* a payload that still carries the old signature *)
SignedPayloadKeepsSignature(attr) == attr

(* what jwt.sign is handed: the attribute after delete(attr.signature) *)
SignedPayload(attr) == Without(attr, "signature")

(* a guard that forgets the publisher *)
SkipsAttributeAnyPublisher(attr) ==
  \/ ~HasSignature(attr)
  \/ "value" \in DOMAIN attr /\ attr.value = Null
  \/ "values" \in DOMAIN attr /\ attr.values = Null

(* the guard of signAttribute: a missing key is undefined, not null *)
SkipsAttribute(attr) ==
  \/ ~HasSignature(attr)
  \/ attr.signature.publisher.name # PUBLISHER_NAME
  \/ "value" \in DOMAIN attr /\ attr.value = Null
  \/ "values" \in DOMAIN attr /\ attr.values = Null

(* the signature object that signAttribute assigns *)
NewSignature(token) ==
  [additional |-> << [alg |-> "RS256", name |-> "null", typ |-> "JWS",
                      value |-> << >>] >>,
   publisher  |-> [alg |-> "RS256", name |-> PUBLISHER_NAME, typ |-> "JWS",
                   value |-> token]]

signAttribute(attr) ==
  IF SkipsAttribute(attr) THEN attr
  ELSE [k \in DOMAIN attr |->
          IF k = "signature"
          THEN NewSignature(JwtSign(SignedPayload(Coerce(attr))))
          ELSE Coerce(attr)[k]]

(* a walk that goes one level deep only *)
RECURSIVE signAllDepth(_, _)
signAllDepth(node, depth) ==
  [k \in DOMAIN node |->
     IF IsObject(node[k]) /\ HasSignature(node[k]) THEN signAttribute(node[k])
     ELSE IF IsObject(node[k]) /\ ~HasSignature(node[k]) /\ depth > 0
          THEN signAllDepth(node[k], depth - 1)
          ELSE node[k]]

signAllOneLevel(node) == signAllDepth(node, 1)

(* signAll: Object.values(profile).forEach(...), descending into containers *)
RECURSIVE signAll(_)
signAll(node) ==
  [k \in DOMAIN node |->
     IF IsObject(node[k]) /\ HasSignature(node[k]) THEN signAttribute(node[k])
     ELSE IF IsObject(node[k]) /\ ~HasSignature(node[k]) THEN signAll(node[k])
     ELSE node[k]]

----------------------------------------------------------------------------
(* The null profile and the inputs of createPersonProfile *)

(* longest sequence of linked identities *)
MaxIdentities == 2

(* now.toISOString() of the invocation, and the time stamp of the skeleton *)
Now == "2026-01-01T00:00:00.000Z"
SkeletonTime == "1970-01-01T00:00:00Z"

(* publisher names the skeleton can carry on its attributes *)
SkeletonPublishers == {"access_provider", "mozilliansorg"}

NullSignature(pub) ==
  [additional |-> << [alg |-> "RS256", name |-> "null", typ |-> "JWS",
                      value |-> << >>] >>,
   publisher  |-> [alg |-> "RS256", name |-> pub, typ |-> "JWS",
                   value |-> << >>]]

NullMetadata ==
  [last_modified |-> SkeletonTime, display |-> "public", verified |-> FALSE]

NullAttribute(pub) ==
  [value |-> Null, metadata |-> NullMetadata, signature |-> NullSignature(pub)]

NullValuesAttribute(pub) ==
  [values |-> Null, metadata |-> NullMetadata, signature |-> NullSignature(pub)]

(* the attributes of the null profile that createPersonProfile touches, and *)
(* one (timezone) that it does not                                          *)
NullProfile(pub) ==
  [active        |-> NullAttribute(pub),
   first_name    |-> NullAttribute(pub),
   last_name     |-> NullAttribute(pub),
   primary_email |-> NullAttribute(pub),
   user_id       |-> NullAttribute(pub),
   login_method  |-> NullAttribute(pub),
   timezone      |-> NullAttribute(pub),
   usernames     |-> NullValuesAttribute(pub),
   identities    |->
     [github_id_v3                   |-> NullAttribute(pub),
      github_id_v4                   |-> NullAttribute(pub),
      github_primary_email           |-> NullAttribute(pub),
      google_oauth2_id               |-> NullAttribute(pub),
      google_primary_email           |-> NullAttribute(pub),
      firefox_accounts_id            |-> NullAttribute(pub),
      firefox_accounts_primary_email |-> NullAttribute(pub)]]

(* the linked identities a user can carry; profileData is absent or carries *)
(* node_id, email and email_verified (true or not)                          *)
Identities ==
  {[connection |-> "github", provider |-> "github", user_id |-> "12345",
    profileData |-> pd] : pd \in {"absent", "verified", "unverified"}}
  \cup
  {[connection |-> "google-oauth2", provider |-> "google-oauth2",
    user_id |-> "g-1", profileData |-> "absent"],
   [connection |-> "firefoxaccounts", provider |-> "oauth2",
    user_id |-> "fxa-1", profileData |-> "absent"],
   [connection |-> "email", provider |-> "email",
    user_id |-> "e-1", profileData |-> "absent"],
   [connection |-> "Mozilla-LDAP", provider |-> "ad",
    user_id |-> "ad-1", profileData |-> "absent"]}

IdentitySequences ==
  UNION {[1..n -> Identities] : n \in 0..MaxIdentities}

(* the fields of user that createPersonProfile reads; "" is a missing field *)
Persons ==
  [given_name  : {"", "Given"},
   name        : {"", "Full Name"},
   family_name : {"", "Family"},
   nickname    : {"", "octocat"},
   email       : {"user@example.com"},
   identities  : IdentitySequences]

(* const USER_ID = context.primaryUser || user.user_id *)
USER_ID == "ad|Mozilla-LDAP|user"

----------------------------------------------------------------------------
(* createPersonProfile *)

(* lines 105-126: the top-level attributes *)
BuildTopLevel(doc, usr) ==
  [doc EXCEPT
     !.active.metadata.last_modified = Now,
     !.active.signature.publisher.name = PUBLISHER_NAME,
     !.active.value = V("boolean", "true"),
     !.first_name.metadata.display = "private",
     !.first_name.metadata.last_modified = Now,
     !.first_name.signature.publisher.name = PUBLISHER_NAME,
     !.first_name.value =
        V("string", IF usr.given_name # "" THEN usr.given_name
                    ELSE IF usr.name # "" THEN usr.name
                    ELSE IF usr.family_name # "" THEN usr.family_name
                    ELSE IF usr.nickname # "" THEN usr.nickname
                    ELSE " "),
     !.last_name.metadata.display = "private",
     !.last_name.metadata.last_modified = Now,
     !.last_name.signature.publisher.name = PUBLISHER_NAME,
     !.last_name.value =
        V("string", IF usr.family_name # "" THEN usr.family_name ELSE " "),
     !.primary_email.metadata.last_modified = Now,
     !.primary_email.signature.publisher.name = PUBLISHER_NAME,
     !.primary_email.value = V("string", usr.email),
     !.user_id.metadata.last_modified = Now,
     !.user_id.signature.publisher.name = PUBLISHER_NAME,
     !.user_id.value = V("string", USER_ID)]

(* a test that lets every whitelisted identity store the login method *)
StoresLoginMethodAlways(idx) == TRUE

(* if (i === 0): the login method is taken from the first identity *)
StoresLoginMethod(idx) == idx = 0

(* a test that maps the provider profile data even when there is none *)
HasProfileDataAlways(identity) == TRUE

(* if (identity.profileData) *)
HasProfileData(identity) == identity.profileData # "absent"

(* lines 145-170: the github branch *)
BuildGithub(doc, usr, identity) ==
  LET g1 == [doc EXCEPT
               !.identities.github_id_v3.metadata.display = "private",
               !.identities.github_id_v3.metadata.last_modified = Now,
               !.identities.github_id_v3.signature.publisher.name = PUBLISHER_NAME,
               !.identities.github_id_v3.value = V("string", identity.user_id)]
      g2 == IF usr.nickname # ""
            THEN [g1 EXCEPT
                    !.usernames.metadata.display = "private",
                    !.usernames.signature.publisher.name = PUBLISHER_NAME,
                    !.usernames.values = V("object", usr.nickname)]
            ELSE g1
  IN  IF HasProfileData(identity)
      THEN [g2 EXCEPT
              !.identities.github_id_v4.metadata.display = "private",
              !.identities.github_id_v4.metadata.last_modified = Now,
              !.identities.github_id_v4.signature.publisher.name = PUBLISHER_NAME,
              !.identities.github_id_v4.value = V("string", "node_id"),
              !.identities.github_primary_email.metadata.display = "private",
              !.identities.github_primary_email.metadata.last_modified = Now,
              !.identities.github_primary_email.metadata.verified =
                 (identity.profileData = "verified"),
              !.identities.github_primary_email.signature.publisher.name =
                 PUBLISHER_NAME,
              !.identities.github_primary_email.value =
                 V("string", "profileData.email")]
      ELSE g2

(* lines 172-182: the google branch *)
BuildGoogle(doc, usr, identity) ==
  [doc EXCEPT
     !.identities.google_oauth2_id.metadata.display = "private",
     !.identities.google_oauth2_id.metadata.last_modified = Now,
     !.identities.google_oauth2_id.signature.publisher.name = PUBLISHER_NAME,
     !.identities.google_oauth2_id.value = V("string", identity.user_id),
     !.identities.google_primary_email.metadata.display = "private",
     !.identities.google_primary_email.metadata.last_modified = Now,
     !.identities.google_primary_email.signature.publisher.name = PUBLISHER_NAME,
     !.identities.google_primary_email.value = V("string", usr.email)]

(* lines 184-194: the Firefox Accounts branch *)
BuildFirefoxAccounts(doc, usr, identity) ==
  [doc EXCEPT
     !.identities.firefox_accounts_id.metadata.display = "private",
     !.identities.firefox_accounts_id.metadata.last_modified = Now,
     !.identities.firefox_accounts_id.signature.publisher.name = PUBLISHER_NAME,
     !.identities.firefox_accounts_id.value = V("string", identity.user_id),
     !.identities.firefox_accounts_primary_email.metadata.display = "private",
     !.identities.firefox_accounts_primary_email.metadata.last_modified = Now,
     !.identities.firefox_accounts_primary_email.signature.publisher.name =
        PUBLISHER_NAME,
     !.identities.firefox_accounts_primary_email.value = V("string", usr.email)]

(* lines 131-195: one pass of the loop, for user.identities[idx] *)
BuildIdentity(doc, usr, idx) ==
  LET identity == usr.identities[idx + 1]
      d1 == IF StoresLoginMethod(idx)
            THEN [doc EXCEPT
                    !.login_method.metadata.last_modified = Now,
                    !.login_method.signature.publisher.name = PUBLISHER_NAME,
                    !.login_method.value = V("string", identity.connection)]
            ELSE doc
  IN  IF identity.connection \notin WHITELISTED_CONNECTIONS THEN doc
      ELSE IF identity.provider = "github" THEN BuildGithub(d1, usr, identity)
      ELSE IF identity.provider = "google-oauth2"
           THEN BuildGoogle(d1, usr, identity)
      ELSE IF identity.connection = "firefoxaccounts"
              /\ identity.provider = "oauth2"
           THEN BuildFirefoxAccounts(d1, usr, identity)
      ELSE d1

----------------------------------------------------------------------------
(* Initial state: a fresh process (empty token cache), any configuration,   *)
(* a subject that may or may not already have a profile in the store.       *)

(* no profile is being built or signed, no concurrent call is under way *)
NoPerson ==
  [given_name |-> "", name |-> "", family_name |-> "", nickname |-> "",
   email |-> "", identities |-> << >>]

NoRequest == [token |-> NoToken, time |-> 0]

AuxIdle ==
  /\ skeleton = << >>
  /\ document = << >>
  /\ person = NoPerson
  /\ i = 0
  /\ stage = "idle"
  /\ calls = << >>
  /\ completed = NoRequest

OrchInit ==
  /\ configuration \in BoundedConfigurations
  /\ global = [personapi_bearer_token |-> NoToken,
               personapi_bearer_token_creation_time |-> 0]
  /\ clock = 1
  /\ ticks = 0
  /\ invocations = 0
  /\ pc = "idle"
  /\ phase = "get"
  /\ context = [connectionStrategy |-> "github", primaryUserMetadata |-> "absent"]
  /\ user = [user_metadata |-> "absent"]
  /\ args = [context |-> context, user |-> user]
  /\ METADATA = "unset"
  /\ bearer = NoToken
  /\ callbacks = 0
  /\ callbackError = FALSE
  /\ thrown = FALSE
  /\ log = "none"
  /\ net = NoCalls
  /\ issued = 0
  /\ profile = "none"
  /\ response = "none"
  /\ cis \in [profile : BOOLEAN, accepted : {0}]
  /\ auth0 = [existsInCIS |-> FALSE, pending |-> 0, unhandled |-> 0]

Init == OrchInit /\ AuxIdle

(* the variables of the orchestration, and their state when no invocation   *)
(* has started under a complete configuration                               *)
orch == <<configuration, invocations, pc, phase, context, user, args,
          METADATA, bearer, callbacks, callbackError, thrown, log, net,
          profile, response, cis, auth0>>

OrchIdle ==
  /\ OrchInit
  /\ Defects(configuration) = 0
  /\ ~cis.profile

----------------------------------------------------------------------------
(* The rule function: everything that runs synchronously when the host      *)
(* calls the rule for a login, up to the first suspension point.            *)

Rule(ctx, usr) ==
  /\ UNCHANGED aux
  /\ pc \in {"idle", "done"}
  /\ invocations < MaxInvocations
  \* the host hands over the subject's current metadata
  /\ (SelectMetadata(ctx, usr) = "set") = auth0.existsInCIS
  /\ invocations' = invocations + 1
  /\ context' = ctx
  /\ user' = usr
  /\ args' = [context |-> ctx, user |-> usr]
  /\ METADATA' = SelectMetadata(ctx, usr)
  /\ profile' = "none"
  /\ response' = "none"
  /\ UNCHANGED <<configuration, global, clock, ticks, issued, cis, auth0>>
  /\ CASE ConfigGate(configuration) = "missing" ->
            /\ log' = "config"
            /\ thrown' = FALSE
            /\ Callback(0)
            /\ net' = NoCalls /\ bearer' = NoToken /\ phase' = "get"
       [] ConfigGate(configuration) = "throw" ->
            /\ thrown' = TRUE
            /\ pc' = "done"
            /\ callbacks' = 0 /\ callbackError' = FALSE
            /\ log' = "none"
            /\ net' = NoCalls /\ bearer' = NoToken /\ phase' = "get"
       [] ConfigGate(configuration) = "misconfigured" ->
            /\ log' = "misconfigured"
            /\ thrown' = FALSE
            /\ Callback(0)
            /\ net' = NoCalls /\ bearer' = NoToken /\ phase' = "get"
       [] ConfigGate(configuration) = "pass" ->
            IF ~Eligible(ctx, SelectMetadata(ctx, usr))
            THEN /\ log' = "none"
                 /\ thrown' = FALSE
                 /\ Callback(0)
                 /\ net' = NoCalls /\ bearer' = NoToken /\ phase' = "get"
            ELSE \* getPersonProfile() starts: await getBearerToken()
                 /\ log' = "none"
                 /\ thrown' = FALSE
                 /\ callbacks' = 0 /\ callbackError' = FALSE
                 /\ GetBearerToken("get", NoCalls)

(* The token request of getBearerToken settles.  With no OAuth URL          *)
(* configured the fetch can only reject.                                    *)
TokenResponse(r) ==
  /\ UNCHANGED aux
  /\ pc = "token_wait"
  /\ r \in {"token", "error_body"} => configuration.personapi_oauth_url = "ok"
  /\ UNCHANGED <<configuration, clock, ticks, invocations, context, user,
                 args, METADATA, thrown, profile, response, cis, auth0, phase>>
  /\ CASE r = "token" ->
            \* data.access_token and Date.now() are stored, the token returned
            /\ issued' = issued + 1
            /\ global' = StoreToken(global, issued + 1, clock)
            /\ bearer' = issued + 1
            /\ IssueCall(phase, issued + 1, net)
            /\ UNCHANGED <<callbacks, callbackError, log>>
       [] r = "error_body" ->
            \* a JSON body without access_token: undefined is stored and returned
            /\ global' = StoreToken(global, NoToken, clock)
            /\ bearer' = NoToken
            /\ IssueCall(phase, NoToken, net)
            /\ UNCHANGED <<callbacks, callbackError, log, issued>>
       [] r = "reject" ->
            \* fetch or response.json() rejected: rethrown, caught by the chain
            /\ log' = "token"
            /\ Callback(callbacks)
            /\ UNCHANGED <<global, bearer, net, issued>>

(* The store fetch of getPersonProfile settles and the first .then of the   *)
(* chain runs.  A 2xx answer reflects the store; an authenticated request   *)
(* is needed for it.  An error answer with a JSON body, a JSON null, and a  *)
(* rejected fetch (timeout, transport error, non-JSON body) are always      *)
(* possible.                                                                *)
StoreResponse(r) ==
  /\ UNCHANGED aux
  /\ pc = "store_wait"
  /\ r = "profile" => cis.profile /\ bearer # NoToken
  /\ r = "empty" => ~cis.profile /\ bearer # NoToken
  /\ profile' = r
  /\ UNCHANGED <<configuration, global, clock, ticks, invocations, args,
                 thrown, issued, response, cis>>
  /\ CASE r \in {"null_body", "reject"} ->
            \* Object.keys(null) throws / the promise rejected
            /\ log' = "fetch"
            /\ Callback(callbacks)
            /\ UNCHANGED <<METADATA, context, user, auth0, net, bearer, phase>>
       [] r \notin {"null_body", "reject"} /\ ProfileExists(r) ->
            /\ SetExistsInCIS
            /\ log' = "exists"
            /\ Callback(callbacks)
            /\ UNCHANGED <<bearer, phase>>
       [] r \notin {"null_body", "reject"} /\ ~ProfileExists(r) ->
            IF configuration.changeapi_null_profile = "malformed"
            THEN \* createPersonProfile: JSON.parse of the skeleton throws
                 /\ log' = "build"
                 /\ Callback(callbacks)
                 /\ UNCHANGED <<METADATA, context, user, auth0, net, bearer,
                                phase>>
            ELSE \* createPersonProfile, then postProfile: await getBearerToken()
                 /\ GetBearerToken("post", net)
                 /\ UNCHANGED <<METADATA, context, user, auth0, callbacks,
                                callbackError, log>>

(* The submission of postProfile settles and the last .then of the chain    *)
(* runs.  A request whose answer is lost may still have been applied.       *)
SubmitResponse(r, applied) ==
  /\ UNCHANGED aux
  /\ pc = "submit_wait"
  /\ r = "ok200" => bearer # NoToken
  /\ applied => r = "reject" /\ bearer # NoToken
  /\ response' = r
  /\ UNCHANGED <<configuration, global, clock, ticks, invocations, args,
                 thrown, issued, bearer, phase, profile>>
  /\ IF r \notin {"null_body", "reject"} /\ SubmissionSucceeded(r)
     THEN /\ cis' = [profile |-> (r = "ok200") \/ cis.profile,
                     accepted |-> cis.accepted + (IF r = "ok200" THEN 1 ELSE 0)]
          /\ SetExistsInCIS
          /\ log' = log
          /\ Callback(callbacks)
     ELSE /\ cis' = [cis EXCEPT !.profile = @ \/ applied]
          /\ log' = "submit"
          /\ Callback(callbacks)
          /\ UNCHANGED <<METADATA, context, user, auth0, net>>

(* The updateUserMetadata call of setExistsInCIS settles.  Its .catch       *)
(* throws again and nothing handles that rejection.                         *)
UpdateResponse(ok) ==
  /\ UNCHANGED aux
  /\ auth0.pending > 0
  /\ auth0' = IF ok
              THEN [auth0 EXCEPT !.pending = @ - 1, !.existsInCIS = TRUE]
              ELSE [auth0 EXCEPT !.pending = @ - 1, !.unhandled = @ + 1]
  /\ UNCHANGED <<configuration, global, clock, ticks, invocations, pc, phase,
                 context, user, args, METADATA, bearer, callbacks,
                 callbackError, thrown, log, net, issued, profile, response,
                 cis>>

(* Time passes. *)
Tick(d) ==
  /\ UNCHANGED aux
  /\ ticks < MaxTicks
  /\ ticks' = ticks + 1
  /\ clock' = clock + d
  /\ UNCHANGED <<configuration, global, invocations, pc, phase, context, user,
                 args, METADATA, bearer, callbacks, callbackError, thrown, log, net,
                 issued, profile, response, cis, auth0>>

Next ==
  \/ \E ctx \in Contexts, usr \in Users : Rule(ctx, usr)
  \/ \E r \in TokenResponses : TokenResponse(r)
  \/ \E r \in StoreResponses : StoreResponse(r)
  \/ \E r \in SubmitResponses, applied \in BOOLEAN : SubmitResponse(r, applied)
  \/ \E ok \in BOOLEAN : UpdateResponse(ok)
  \/ \E d \in Durations : Tick(d)

Spec == Init /\ [][Next]_vars

----------------------------------------------------------------------------
(* createPersonProfile on its own, for any user: the skeleton is decoded,   *)
(* the top-level attributes are written, the loop runs over the linked      *)
(* identities, and the profile is signed.                                   *)

InitBuild ==
  /\ OrchIdle
  /\ global = [personapi_bearer_token |-> NoToken,
               personapi_bearer_token_creation_time |-> 0]
  /\ \E pub \in SkeletonPublishers : skeleton = NullProfile(pub)
  /\ document = skeleton
  /\ person \in Persons
  /\ i = 0
  /\ stage = "top"
  /\ calls = << >>
  /\ completed = NoRequest

CreateTopLevel ==
  /\ stage = "top"
  /\ document' = BuildTopLevel(document, person)
  /\ stage' = "identities"
  /\ UNCHANGED <<orch, global, clock, ticks, issued, skeleton, person, i,
                 calls, completed>>

CreateIdentity ==
  /\ stage = "identities"
  /\ i < Len(person.identities)
  /\ document' = BuildIdentity(document, person, i)
  /\ i' = i + 1
  /\ UNCHANGED <<orch, global, clock, ticks, issued, skeleton, person, stage,
                 calls, completed>>

CreateSigned ==
  /\ stage = "identities"
  /\ i = Len(person.identities)
  /\ document' = signAll(document)
  /\ stage' = "built"
  /\ UNCHANGED <<orch, global, clock, ticks, issued, skeleton, person, i,
                 calls, completed>>

NextBuild == CreateTopLevel \/ CreateIdentity \/ CreateSigned

SpecBuild == InitBuild /\ [][NextBuild]_vars

----------------------------------------------------------------------------
(* signAll on its own, for profile trees of any shape: attributes with a    *)
(* number, a string, a null or a values object, published by this system    *)
(* or by another publisher, at every depth.                                 *)

(* deepest nesting of containers below the root *)
MaxDepth == 2

SampleAttributes ==
  {[value |-> val, metadata |-> NullMetadata, signature |-> NullSignature(pub)] :
     val \in {Null, V("number", "42"), V("number", "0"), V("number", "-7"),
              V("string", "x")},
     pub \in SkeletonPublishers}
  \cup
  {[values |-> val, metadata |-> NullMetadata, signature |-> NullSignature(pub)] :
     val \in {Null, V("object", "o")},
     pub \in SkeletonPublishers}

(* a profile with one attribute, one scalar and one container per level *)
RECURSIVE DocumentsOfDepth(_)
DocumentsOfDepth(d) ==
  IF d = 0
  THEN {[attr |-> a, schema |-> [scalar |-> "uri"]] : a \in SampleAttributes}
  ELSE {[attr |-> a, schema |-> [scalar |-> "uri"], group |-> g] :
          a \in SampleAttributes, g \in DocumentsOfDepth(d - 1)}

InitSign ==
  /\ OrchIdle
  /\ global = [personapi_bearer_token |-> NoToken,
               personapi_bearer_token_creation_time |-> 0]
  /\ skeleton \in UNION {DocumentsOfDepth(d) : d \in 0..MaxDepth}
  /\ document = skeleton
  /\ person = NoPerson
  /\ i = 0
  /\ stage = "unsigned"
  /\ calls = << >>
  /\ completed = NoRequest

(* signAll(profile) *)
SignProfile ==
  /\ stage = "unsigned"
  /\ document' = signAll(document)
  /\ stage' = "signed"
  /\ UNCHANGED <<orch, global, clock, ticks, issued, skeleton, person, i,
                 calls, completed>>

(* signAll(profile) once more, on the signed profile; skeleton keeps the    *)
(* profile as it was after the first signing                                *)
SignAgain ==
  /\ stage = "signed"
  /\ skeleton' = document
  /\ document' = signAll(document)
  /\ stage' = "resigned"
  /\ UNCHANGED <<orch, global, clock, ticks, issued, person, i, calls,
                 completed>>

NextSign == SignProfile \/ SignAgain

SpecSign == InitSign /\ [][NextSign]_vars

----------------------------------------------------------------------------
(* getBearerToken called by invocations that the event loop interleaves.    *)
(* Each invocation calls it from getPersonProfile and again from            *)
(* postProfile; the calls share the global object and nothing else.  A      *)
(* step is the code between two awaits, which JavaScript runs to the end    *)
(* before any other code of the process.                                    *)

(* number of interleaved invocations *)
MaxConcurrent == 2

(* calls of getBearerToken per invocation: getPersonProfile and postProfile *)
CallsPerInvocation == 2

Invocations == 1..MaxConcurrent

InitConcurrent ==
  /\ OrchIdle
  /\ skeleton = << >>
  /\ document = << >>
  /\ person = NoPerson
  /\ i = 0
  /\ stage = "idle"
  /\ calls = [n \in Invocations |->
               [pc |-> "idle", made |-> 0, requests |-> 0, result |-> NoToken]]
  /\ completed = NoRequest

(* lines 53-78: the cache test and, on a miss, the token request *)
CallGetBearerToken(n) ==
  /\ calls[n].pc \in {"idle", "returned"}
  /\ calls[n].made < CallsPerInvocation
  /\ IF TokenFresh(global.personapi_bearer_token,
                   global.personapi_bearer_token_creation_time, clock)
     THEN calls' = [calls EXCEPT ![n].pc = "returned",
                                 ![n].made = @ + 1,
                                 ![n].result = global.personapi_bearer_token]
     ELSE calls' = [calls EXCEPT ![n].pc = "waiting",
                                 ![n].made = @ + 1,
                                 ![n].requests = @ + 1]
  /\ UNCHANGED <<orch, global, clock, ticks, issued, skeleton, document,
                 person, i, stage, completed>>

(* lines 78-89: the token request of invocation n settles *)
SettleTokenRequest(n, r) ==
  /\ calls[n].pc = "waiting"
  /\ CASE r = "token" ->
            /\ issued' = issued + 1
            /\ global' = StoreToken(global, issued + 1, clock)
            /\ completed' = [token |-> issued + 1, time |-> clock]
            /\ calls' = [calls EXCEPT ![n].pc = "returned",
                                      ![n].result = issued + 1]
       [] r = "error_body" ->
            /\ global' = StoreToken(global, NoToken, clock)
            /\ completed' = [token |-> NoToken, time |-> clock]
            /\ calls' = [calls EXCEPT ![n].pc = "returned",
                                      ![n].result = NoToken]
            /\ UNCHANGED issued
       [] r = "reject" ->
            /\ calls' = [calls EXCEPT ![n].pc = "failed"]
            /\ UNCHANGED <<global, completed, issued>>
  /\ UNCHANGED <<orch, clock, ticks, skeleton, document, person, i, stage>>

NextConcurrent ==
  \/ \E n \in Invocations : CallGetBearerToken(n)
  \/ \E n \in Invocations, r \in TokenResponses : SettleTokenRequest(n, r)
  \/ \E d \in Durations : Tick(d)

SpecConcurrent == InitConcurrent /\ [][NextConcurrent]_vars

----------------------------------------------------------------------------
(* Type invariant *)

TypeOK ==
  /\ configuration \in Configurations
  /\ global \in [personapi_bearer_token : Nat,
                 personapi_bearer_token_creation_time : Nat]
  /\ clock \in Nat /\ ticks \in 0..MaxTicks
  /\ invocations \in 0..MaxInvocations
  /\ pc \in {"idle", "token_wait", "store_wait", "submit_wait", "done"}
  /\ phase \in {"get", "post"}
  /\ context \in Contexts /\ user \in Users
  /\ args \in [context : Contexts, user : Users]
  /\ METADATA \in {"unset", "set"}
  /\ bearer \in Nat
  /\ callbacks \in Nat /\ callbackError \in BOOLEAN /\ thrown \in BOOLEAN
  /\ log \in {"none", "config", "misconfigured", "token", "fetch", "exists",
              "build", "submit"}
  /\ net \in [token : Nat, store : Nat, submit : Nat, update : Nat, unauth : Nat]
  /\ issued \in Nat
  /\ profile \in StoreResponses \cup {"none"}
  /\ response \in SubmitResponses \cup {"none"}
  /\ cis \in [profile : BOOLEAN, accepted : Nat]
  /\ auth0 \in [existsInCIS : BOOLEAN, pending : Nat, unhandled : Nat]

----------------------------------------------------------------------------
(* Notions the properties are stated with *)

(* Outbound calls of the current invocation that reach the network.  A      *)
(* token request without an OAuth URL is rejected by the HTTP client before *)
(* any I/O and is not counted.                                              *)
NetworkCalls ==
  (IF configuration.personapi_oauth_url = "ok" THEN net.token ELSE 0)
  + net.store + net.submit + net.update

(* one of the eight required settings is absent *)
RequiredSettingAbsent == \E k \in DOMAIN configuration : configuration[k] = "absent"

(* the invocation has ended by invoking the callback once, without error *)
CompletedWithoutError == callbacks = 1 /\ ~callbackError /\ ~thrown

(* a step in which a call of getBearerToken starts *)
GetTokenStarts ==
  \/ pc \in {"idle", "done"} /\ pc' \in {"token_wait", "store_wait"}
  \/ pc = "store_wait" /\ pc' \in {"token_wait", "submit_wait"}

(* token requests of the invocation before the call of getBearerToken *)
TokenRequestsBefore == IF pc = "store_wait" THEN net.token ELSE 0

(* age of the cached token *)
TokenAge == clock - global.personapi_bearer_token_creation_time

CacheHoldsToken ==
  /\ global.personapi_bearer_token # NoToken
  /\ global.personapi_bearer_token_creation_time # 0

----------------------------------------------------------------------------
(* C1: every invocation, whatever the outcome of its steps, ends by         *)
(* invoking the callback exactly once with a null error, and never throws   *)
(* to its caller.                                                           *)
C1_CallbackExactlyOnce ==
  /\ callbacks <= 1
  /\ ~callbackError
  /\ ~thrown
  /\ pc = "done" => callbacks = 1

(* C2: with any required setting absent the pipeline performs no network    *)
(* call and completes by invoking the callback without error.               *)
C2_AbsentSettingNoCalls ==
  RequiredSettingAbsent /\ invocations > 0 =>
    /\ NetworkCalls = 0
    /\ ~thrown
    /\ pc = "done" => CompletedWithoutError

(* C3: an outbound call is issued only for a whitelisted strategy with the  *)
(* flag not set; every other login makes no network call and completes      *)
(* without error.                                                           *)
C3_IneligibleNoCalls ==
  invocations > 0 /\ ~( /\ args.context.connectionStrategy \in WHITELISTED_CONNECTIONS
                        /\ SelectMetadata(args.context, args.user) # "set" ) =>
    /\ NetworkCalls = 0
    /\ pc = "done"
    /\ CompletedWithoutError

(* C4: a call of getBearerToken that finds a cached token younger than the  *)
(* refresh window returns it and issues no token request; any other call    *)
(* issues exactly one token request, and when that request returns a token  *)
(* the token is stored with the current time and returned.                  *)
C4_GetToken ==
  [][ /\ GetTokenStarts /\ CacheHoldsToken
         /\ TokenAge < PERSONAPI_BEARER_TOKEN_REFRESH_AGE =>
           /\ bearer' = global.personapi_bearer_token
           /\ net'.token = TokenRequestsBefore
           /\ pc' # "token_wait"
           /\ global' = global
      /\ GetTokenStarts /\ ~( CacheHoldsToken
                              /\ TokenAge < PERSONAPI_BEARER_TOKEN_REFRESH_AGE ) =>
           /\ pc' = "token_wait"
           /\ net'.token = TokenRequestsBefore + 1
      /\ pc = "token_wait" => net'.token = net.token
      /\ pc = "token_wait" /\ issued' # issued =>
           /\ global' = [personapi_bearer_token |-> issued',
                         personapi_bearer_token_creation_time |-> clock]
           /\ bearer' = issued'
    ]_vars

(* an aged cached token was reused by postProfile: one token request only *)
C4_Witness ==
  /\ pc = "submit_wait"
  /\ net.token = 1
  /\ bearer = global.personapi_bearer_token
  /\ bearer # NoToken
  /\ TokenAge = 1000

(* C5: a cached token is reused whenever less than 18 hours have elapsed    *)
(* since it was stored.                                                     *)
C5_ReusedWithin18Hours ==
  [][ GetTokenStarts /\ CacheHoldsToken /\ TokenAge < EighteenHoursMs =>
        pc' # "token_wait" /\ bearer' = global.personapi_bearer_token ]_vars

(* C6: when the existence check returns a non-empty profile the invocation  *)
(* issues the metadata update setting the flag and no submission call.      *)
C6_ExistingProfileNoSubmission ==
  profile = "profile" =>
    /\ net.update = 1
    /\ METADATA = "set"
    /\ net.submit = 0
    /\ response = "none"
    /\ pc = "done"

C6_Witness ==
  /\ profile = "profile"
  /\ net.update = 1
  /\ auth0.existsInCIS

(* C7: a submission that settles with anything but an object carrying       *)
(* status_code 200 is reported as an error and the subject is not marked:   *)
(* no metadata update is issued and the flag stays unset.                   *)
C7_FailedSubmissionNotMarked ==
  response \notin {"none", "ok200"} =>
    /\ log = "submit"
    /\ net.update = 0
    /\ METADATA # "set"
    /\ pc = "done"
    /\ CompletedWithoutError

C7_Witness ==
  /\ response = "other_body"
  /\ log = "submit"
  /\ net.submit = 1

(* C8: whenever the flag is set for the subject the store holds a profile   *)
(* for it.                                                                  *)
C8_FlagImpliesProfile == auth0.existsInCIS => cis.profile

(* C9: once a submission has succeeded no later submission call is issued;  *)
(* a later existence check that finds the profile marks the subject and     *)
(* ends the invocation.                                                     *)
C9_NoResubmission ==
  [][ /\ net'.submit > net.submit => cis.accepted = 0
      /\ cis.accepted > 0 /\ pc = "store_wait" /\ profile' = "profile" =>
           net'.update = 1 /\ net'.submit = 0 /\ pc' = "done" ]_vars

(* the update after the successful submission failed; the next invocation   *)
(* found the profile and marked the subject                                 *)
C9_Witness ==
  /\ invocations = 2
  /\ cis.accepted = 1
  /\ auth0.unhandled = 1
  /\ profile = "profile"
  /\ net.update = 1
  /\ net.submit = 0
  /\ pc = "done"

(* C10: after a failed token request no store fetch or submission is        *)
(* issued with an absent token and no absent token is stored in the cache.  *)
C10_NoAbsentToken ==
  /\ net.unauth = 0
  /\ ~( /\ global.personapi_bearer_token = NoToken
        /\ global.personapi_bearer_token_creation_time # 0 )

(* C11: a submission is issued only after the existence check of the same   *)
(* invocation returned an empty object, and after a failed step (a token    *)
(* request that returned no token, a store fetch that failed or answered    *)
(* an error, a submission that did not succeed) the invocation issues no    *)
(* further outbound call.                                                   *)
C11_StrictOrder ==
  [][ /\ net'.submit > net.submit => profile' = "empty"
      /\ pc = "token_wait" /\ pc' # "token_wait" /\ issued' = issued =>
           /\ net'.store = net.store
           /\ net'.submit = net.submit
           /\ net'.update = net.update
      /\ pc = "store_wait" /\ profile' \in {"error_body", "null_body", "reject"} =>
           net' = net
      /\ pc = "submit_wait" /\ response' \notin {"none", "ok200"} =>
           net' = net ]_vars

(* C17: the callback is invoked only after the metadata update of the       *)
(* invocation has settled, and a failed update leaves no unhandled          *)
(* rejection.                                                               *)
C17_CallbackAfterMark ==
  /\ callbacks > 0 => auth0.pending = 0
  /\ auth0.unhandled = 0

(* C12 (as in the specification): after any invocation the user and        *)
(* context objects the caller passed in are unchanged.                      *)
C12_IdentityUnchanged == user = args.user /\ context = args.context

(* the caller's objects differ from what was passed in at most by the flag  *)
(* on the mapping METADATA was read from                                    *)
OnlyFlagWritten ==
  /\ context.connectionStrategy = args.context.connectionStrategy
  /\ IF args.context.primaryUserMetadata # "absent"
     THEN /\ user = args.user
          /\ context.primaryUserMetadata \in {args.context.primaryUserMetadata, "set"}
     ELSE /\ context = args.context
          /\ args.user.user_metadata = "absent" => user = args.user
          /\ user.user_metadata \in {args.user.user_metadata, "set"}

(* C12 (amended): an invocation that does not mark the subject leaves the   *)
(* caller's objects unchanged; one that marks it writes existsInCIS into    *)
(* the metadata mapping the flag was read from and changes nothing else;    *)
(* the flag is persisted only by a settled metadata update call.            *)
C12_OnlyMetadataFlagWritten ==
  [][ /\ net'.update = 0 => user' = args'.user /\ context' = args'.context
      /\ OnlyFlagWritten'
      /\ auth0'.existsInCIS /\ ~auth0.existsInCIS =>
           auth0.pending > 0 /\ auth0'.pending = auth0.pending - 1 ]_vars

(* an invocation marked the subject and the user object now carries the flag *)
C12_Witness ==
  /\ net.update = 1
  /\ args.user.user_metadata = "unset"
  /\ user.user_metadata = "set"
  /\ context = args.context

----------------------------------------------------------------------------
(* Notions the properties of createPersonProfile are stated with *)

Whitelisted(k) == person.identities[k].connection \in WHITELISTED_CONNECTIONS

WhitelistedPositions == {k \in 1..Len(person.identities) : Whitelisted(k)}

(* position of the first whitelisted linked identity *)
FirstWhitelisted ==
  CHOOSE k \in WhitelistedPositions : \A j \in WhitelistedPositions : k <= j

GithubPositions ==
  {k \in WhitelistedPositions : person.identities[k].provider = "github"}

(* the value or values of an attribute *)
Payload(attr) == IF "value" \in DOMAIN attr THEN attr.value ELSE attr.values

(* the provider fields of every whitelisted identity are mapped *)
ProviderFieldsMapped ==
  \A k \in WhitelistedPositions :
    LET identity == person.identities[k] IN
      /\ identity.provider = "github" =>
           document.identities.github_id_v3.value = V("string", identity.user_id)
      /\ identity.provider = "google-oauth2" =>
           document.identities.google_oauth2_id.value = V("string", identity.user_id)
      /\ identity.connection = "firefoxaccounts" /\ identity.provider = "oauth2" =>
           document.identities.firefox_accounts_id.value = V("string", identity.user_id)

(* C13 (as in the specification): login_method is the connection of the     *)
(* first whitelisted linked identity, wherever it sits in the sequence.     *)
C13_FirstWhitelistedWins ==
  stage = "built" /\ WhitelistedPositions # {} =>
    document.login_method.value =
      V("string", person.identities[FirstWhitelisted].connection)

(* C13 (amended): login_method is the connection of the linked identity at  *)
(* the head of the sequence when that one is whitelisted, and is left as in *)
(* the skeleton otherwise; later whitelisted identities do not change it    *)
(* but have their own provider fields mapped.                               *)
C13_HeadIdentityWins ==
  stage = "built" =>
    /\ IF 1 \in WhitelistedPositions
       THEN document.login_method.value =
              V("string", person.identities[1].connection)
       ELSE document.login_method = skeleton.login_method
    /\ ProviderFieldsMapped

(* [google-oauth2, github]: google is the login method, the GitHub id is set *)
C13_Witness ==
  /\ stage = "built"
  /\ Len(person.identities) = 2
  /\ person.identities[1].connection = "google-oauth2"
  /\ person.identities[2].connection = "github"
  /\ document.login_method.value = V("string", "google-oauth2")
  /\ document.identities.github_id_v3.value = V("string", "12345")

(* C14: with a whitelisted GitHub identity and no provider profile data the *)
(* GitHub id is the identity's user id, the username slot holds the         *)
(* nickname when there is one, and the node-id and primary-email fields     *)
(* are as in the skeleton; they are populated only with profile data.       *)
C14_GithubWithoutProfileData ==
  stage = "built" /\ GithubPositions # {} =>
    /\ \E k \in GithubPositions :
         document.identities.github_id_v3.value =
           V("string", person.identities[k].user_id)
    /\ person.nickname # "" =>
         document.usernames.values = V("object", person.nickname)
    /\ (\A k \in GithubPositions : person.identities[k].profileData = "absent") =>
         /\ document.identities.github_id_v4 = skeleton.identities.github_id_v4
         /\ document.identities.github_primary_email =
              skeleton.identities.github_primary_email
    /\ (\E k \in GithubPositions : person.identities[k].profileData # "absent") =>
         /\ document.identities.github_id_v4.value # Null
         /\ document.identities.github_primary_email.value # Null

C14_Witness ==
  /\ stage = "built"
  /\ Len(person.identities) = 1
  /\ person.identities[1].provider = "github"
  /\ person.identities[1].profileData = "absent"
  /\ person.nickname = "octocat"
  /\ document.identities.github_id_v3.value = V("string", "12345")
  /\ document.usernames.values = V("object", "octocat")
  /\ document.identities.github_id_v4.value = Null

(* the attributes of the profile, as pairs of the built and the skeleton one *)
AttributePairs ==
  {<<document[k], skeleton[k]>> : k \in DOMAIN document \ {"identities"}}
  \cup
  {<<document.identities[k], skeleton.identities[k]>> :
     k \in DOMAIN document.identities}

(* C19: every attribute the builder wrote a value to carries the current    *)
(* instant as last_modified and the system's publisher name; the others     *)
(* keep the skeleton's.                                                     *)
C19_WritesAreStamped ==
  stage \in {"identities", "built"} =>
    \A pair \in AttributePairs :
      IF Payload(pair[1]) # Payload(pair[2])
      THEN /\ pair[1].metadata.last_modified = Now
           /\ pair[1].signature.publisher.name = PUBLISHER_NAME
      ELSE /\ pair[1].metadata.last_modified = pair[2].metadata.last_modified
           /\ pair[1].signature.publisher.name = pair[2].signature.publisher.name

----------------------------------------------------------------------------
(* Notions the properties of signAll are stated with *)

(* every attribute of a tree, at every depth, paired with the node at the   *)
(* same place of another tree of the same shape                             *)
RECURSIVE AttributesOf(_, _)
AttributesOf(doc, orig) ==
  UNION {IF "signature" \in DOMAIN orig[k] THEN {<<doc[k], orig[k]>>}
         ELSE IF "scalar" \in DOMAIN orig[k] THEN {}
         ELSE AttributesOf(doc[k], orig[k]) : k \in DOMAIN orig}

(* every container and scalar of a tree, paired the same way *)
RECURSIVE OthersOf(_, _)
OthersOf(doc, orig) ==
  UNION {IF "signature" \in DOMAIN orig[k] THEN {}
         ELSE IF "scalar" \in DOMAIN orig[k] THEN {<<doc[k], orig[k]>>}
         ELSE {<<doc[k], orig[k]>>} \cup OthersOf(doc[k], orig[k]) :
         k \in DOMAIN orig}

(* an attribute this system may sign *)
Signable(attr) ==
  /\ attr.signature.publisher.name = PUBLISHER_NAME
  /\ Payload(attr) # Null

(* the attribute carries this system's signature over its own content *)
SignedByPublisher(attr) ==
  /\ attr.signature.publisher.name = PUBLISHER_NAME
  /\ attr.signature.publisher.alg = "RS256"
  /\ attr.signature.publisher.value # << >>
  /\ attr.signature.publisher.value = JwtSign(Without(attr, "signature"))

(* C15: every signed attribute whose value was a number, 0 and negative     *)
(* numbers included, holds the text of that number as a string, and the     *)
(* signature covers the string.                                             *)
C15_NumbersBecomeStrings ==
  stage = "signed" =>
    \A pair \in AttributesOf(document, skeleton) :
      /\ Signable(pair[2])
      /\ "value" \in DOMAIN pair[2]
      /\ pair[2].value.type = "number"
      => /\ pair[1].value = V("string", pair[2].value.v)
         /\ SignedByPublisher(pair[1])

(* C16: the signature is a function of the attribute without its signature  *)
(* field, so signing the signed profile again gives the same signature      *)
(* values and the same tree, and every signed attribute carries exactly one *)
(* empty additional signature.                                              *)
C16_SigningIsIdempotent ==
  /\ stage = "resigned" => document = skeleton
  /\ stage \in {"signed", "resigned"} =>
       \A pair \in AttributesOf(document, skeleton) :
         Signable(pair[2]) =>
           /\ SignedByPublisher(pair[1])
           /\ Len(pair[1].signature.additional) = 1
           /\ pair[1].signature.additional[1].value = << >>
           /\ pair[1].signature.additional[1].name = "null"

(* a profile with a signed attribute was signed again *)
C16_Witness ==
  /\ stage = "resigned"
  /\ "group" \in DOMAIN document
  /\ document.attr.signature.publisher.value # << >>
  /\ document.group.attr.signature.publisher.value # << >>
  /\ document = skeleton

(* C18: signAll reaches every node at every depth; an attribute is signed   *)
(* exactly when its publisher is this system and its value or values is not *)
(* null; other attributes, scalars and the shape of every container are     *)
(* unchanged, and no container gets a signature.                            *)
C18_EveryEligibleLeafSigned ==
  stage = "signed" =>
    /\ \A pair \in AttributesOf(document, skeleton) :
         IF Signable(pair[2])
         THEN SignedByPublisher(pair[1])
         ELSE pair[1] = pair[2]
    /\ \A pair \in OthersOf(document, skeleton) :
         /\ DOMAIN pair[1] = DOMAIN pair[2]
         /\ "scalar" \in DOMAIN pair[2] => pair[1] = pair[2]

(* the attribute three levels down was signed, the one of another publisher *)
(* at the top was left alone                                                *)
C18_Witness ==
  /\ stage = "signed"
  /\ "group" \in DOMAIN document
  /\ "group" \in DOMAIN document.group
  /\ document.group.group.attr.signature.publisher.value # << >>
  /\ skeleton.attr.signature.publisher.name = "mozilliansorg"
  /\ skeleton.attr.value = V("string", "x")
  /\ document.attr = skeleton.attr

----------------------------------------------------------------------------
(* C20: under any interleaving of invocations the cached token and its      *)
(* creation time are the pair written by one settled token request, the     *)
(* one that settled last.                                                   *)
C20_CachePairFromOneRequest ==
  /\ global.personapi_bearer_token = completed.token
  /\ global.personapi_bearer_token_creation_time = completed.time

(* two invocations found the cache empty, both requested a token, both      *)
(* wrote the cache, at different times                                      *)
C20_Witness ==
  /\ calls[1].requests = 1 /\ calls[1].made = 1 /\ calls[1].pc = "returned"
  /\ calls[2].requests = 1 /\ calls[2].made = 1 /\ calls[2].pc = "returned"
  /\ calls[1].result = 1
  /\ calls[2].result = 2
  /\ global.personapi_bearer_token = 2
  /\ global.personapi_bearer_token_creation_time > 1

====
